---- MODULE Spec2Model ----
(***************************************************************************)
(* VideoProcessor.download_and_convert (backend/video_processor.py) as a   *)
(* state machine.  Each call is a coroutine with its own locals; the       *)
(* processor's default options (self.ydl_opts) and the output directory    *)
(* are shared by all calls.  The download library (yt_dlp) and the ffmpeg  *)
(* and ffprobe processes are the environment: each step that calls them    *)
(* draws their outcome nondeterministically.                               *)
(***************************************************************************)
EXTENDS Integers, Sequences, FiniteSets, TLC

\* ----------------------------------------------------------------- bounds
NumCalls == 2      \* download_and_convert calls made on the one processor
NumIds == 2        \* distinct values str(uuid.uuid4())[:8] can take
MaxDur == 12       \* longest duration (seconds) metadata or ffprobe reports
MaxWritten == 2    \* most files one download leaves in the output directory

Calls == 1..NumCalls
Ids == 1..NumIds
\* durations in whole seconds: 0, and 9 s up to MaxDur (a window around 10 s,
\* where a difference of one second is exactly the 10% tolerance)
Durations == {0} \cup (9..MaxDur)

\* ------------------------------------------------------- strings and paths
\* A str is a sequence of one-character strings.
UpperToLower ==
  [ch \in {"A", "F", "I", "L", "M", "O", "P", "V"} |->
     CASE ch = "A" -> "a" [] ch = "F" -> "f" [] ch = "I" -> "i" [] ch = "L" -> "l"
       [] ch = "M" -> "m" [] ch = "O" -> "o" [] ch = "P" -> "p" [] ch = "V" -> "v"]

\* str.lower()
Lower(s) ==
  [i \in 1..Len(s) |-> IF s[i] \in DOMAIN UpperToLower THEN UpperToLower[s[i]] ELSE s[i]]

\* str.endswith(suffix)
EndsWith(s, suf) ==
  /\ Len(suf) <= Len(s)
  /\ SubSeq(s, Len(s) - Len(suf) + 1, Len(s)) = suf

\* the tuple of suffixes of line 55
VideoSuffixes ==
  { <<".", "m", "p", "4">>, <<".", "m", "o", "v">>,
    <<".", "a", "v", "i">>, <<".", "f", "l", "v">> }

\* os.path.basename: what follows the last "/"
Basename(s) ==
  LET slashes == {i \in 1..Len(s) : s[i] = "/"}
      last == IF slashes = {} THEN 0
              ELSE CHOOSE i \in slashes : \A j \in slashes : j <= i
  IN SubSeq(s, last + 1, Len(s))

\* the inputs a caller passes as `url`
Urls ==
  { <<"/", "a", ".", "m", "p", "4">>,
    <<"/", "B", ".", "M", "O", "V">>,
    <<"v", "/", "c", ".", "a", "v", "i">>,
    <<"d", ".", "f", "l", "v">>,
    <<"/", "e", ".", "m", "k", "v">> }

\* A file of the output directory: audio_<id>.<ext> or audio_<id>_fixed.m4a
AudioPath(id, ext) == [id |-> id, fixed |-> FALSE, ext |-> ext]
FixedPath(id) == [id |-> id, fixed |-> TRUE, ext |-> "m4a"]

\* the extensions the locator tries after .m4a, in the order of line 111
FallbackExts == <<"webm", "mp4", "mp3", "wav">>
DownloadExts == {"m4a"} \cup {FallbackExts[i] : i \in 1..Len(FallbackExts)}

\* ---------------------------------------------------------------- options
\* self.ydl_opts as __init__ builds it
DefaultOpts ==
  [ format |-> "bestaudio/best",
    outtmpl |-> [stem |-> "%(title)s", id |-> 0],    \* '%(title)s.%(ext)s'
    preferredcodec |-> "m4a",
    noplaylist |-> TRUE ]

\* output_template: output_dir / audio_<id>.%(ext)s
OutputTemplate(id) == [stem |-> "audio_", id |-> id]

\* ydl_opts = self.ydl_opts.copy(); ydl_opts['outtmpl'] = output_template
\* gives the processor's dict after the two statements and the call's own.
OptsAliased(shared, tmpl) ==
  [shared |-> [shared EXCEPT !.outtmpl = tmpl],
   local |-> [shared EXCEPT !.outtmpl = tmpl]]

OptsOverride(shared, tmpl) ==
  [shared |-> shared, local |-> [shared EXCEPT !.outtmpl = tmpl]]

\* ------------------------------------------------------------ environment
\* What ydl.extract_info(url, False) gives: it raises, returns None, or
\* returns an info dict in which 'title' and 'duration' may be missing.
InfoDict(hasTitle, hasDuration, d) ==
  (IF hasTitle THEN [k \in {"title"} |-> <<"t">>] ELSE <<>>)
    @@ (IF hasDuration THEN [k \in {"duration"} |-> d] ELSE <<>>)

\* dict.get(key, default)
Get(dict, key, default) == IF key \in DOMAIN dict THEN dict[key] ELSE default

Unknown == <<"unknown">>

\* What an ffprobe run for format=duration gives: a nonzero exit
\* (check_output raises CalledProcessError), or the text it printed: a
\* number, nothing, or N/A.
ProbeResults ==
  {[ok |-> FALSE, text |-> "", value |-> 0],
   [ok |-> TRUE, text |-> "", value |-> 0],
   [ok |-> TRUE, text |-> "N/A", value |-> 0]}
    \cup {[ok |-> TRUE, text |-> "number", value |-> d] : d \in Durations}

\* float(out) if out else 0.0, inside try / except Exception: 0.0
ProbedDuration(r) ==
  IF ~r.ok THEN 0                       \* CalledProcessError: except branch
  ELSE IF r.text = "" THEN 0            \* else 0.0
  ELSE IF r.text = "N/A" THEN 0         \* float raises ValueError: except branch
  ELSE r.value                          \* float(out)

\* the sets of extensions one download can leave behind
WrittenSets == {S \in SUBSET DownloadExts : Cardinality(S) <= MaxWritten}

\* What the caller and the environment (file system, download library,
\* ffmpeg, ffprobe) can do to a call: the inputs each step draws from.
Environment ==
  [ calls |-> 1,
    urls |-> Urls,
    exists |-> BOOLEAN,
    infoFlags |-> BOOLEAN,
    durations |-> Durations,
    written |-> WrittenSets,
    probes |-> ProbeResults ]

\* Every caller makes its call, and the calls interleave; the rest is
\* narrowed to one local and one remote input, metadata that is complete,
\* downloads that leave at most one file (none, the .m4a or the .webm) and
\* probes that report MaxDur (so that the remote calls, whose metadata says
\* 10 s, go through the repair and the local ones do not).
NarrowEnvironment ==
  [ calls |-> NumCalls,
    urls |-> {<<"/", "a", ".", "m", "p", "4">>, <<"/", "e", ".", "m", "k", "v">>},
    exists |-> {TRUE},
    infoFlags |-> {TRUE},
    durations |-> {10},
    written |-> {{}, {"m4a"}, {"webm"}},
    probes |-> {r \in ProbeResults : r.text = "number" /\ r.value = MaxDur} ]

\* ------------------------------------------------------------------ state
VARIABLES
  self_ydl_opts,      \* self.ydl_opts of the processor
  files,              \* the files of the output directory
  pc,                 \* pc[c]: where call c stands
  url,                \* locals and arguments of call c
  url_exists,         \* os.path.exists(url) as call c saw it
  unique_id,
  is_local_file,
  video_title,
  ydl_opts,
  expected_duration,
  actual_duration,
  audio_file,
  probe_cmd,          \* the file the probe command of line 122 names
  log,                \* the external operations call c ran, in order
  outcome             \* what call c gave its caller

vars == <<self_ydl_opts, files, pc, url, url_exists, unique_id, is_local_file,
          video_title, ydl_opts, expected_duration, actual_duration, audio_file,
          probe_cmd, log, outcome>>

NoFile == [id |-> 0, fixed |-> FALSE, ext |-> ""]
NoTitle == <<>>
Pending == [kind |-> "pending"]

\* return audio_file, video_title
Returned(path, title) == [kind |-> "returned", audio_file |-> path, title |-> title]

\* except Exception as e: raise Exception(f"视频处理失败: {str(e)}")
Raised(cause) == [kind |-> "raised", wrapped |-> TRUE, cause |-> cause]

Op(name, ok) == [op |-> name, ok |-> ok]

Init ==
  /\ self_ydl_opts = DefaultOpts
  /\ files = {}
  /\ pc = [c \in Calls |-> "idle"]
  /\ url = [c \in Calls |-> <<>>]
  /\ url_exists = [c \in Calls |-> FALSE]
  /\ unique_id = [c \in Calls |-> 0]
  /\ is_local_file = [c \in Calls |-> FALSE]
  /\ video_title = [c \in Calls |-> NoTitle]
  /\ ydl_opts = [c \in Calls |-> DefaultOpts]
  /\ expected_duration = [c \in Calls |-> 0]
  /\ actual_duration = [c \in Calls |-> 0]
  /\ audio_file = [c \in Calls |-> NoFile]
  /\ probe_cmd = [c \in Calls |-> NoFile]
  /\ log = [c \in Calls |-> <<>>]
  /\ outcome = [c \in Calls |-> Pending]

\* ------------------------------------------------------------ pure helpers
\* line 55: os.path.exists(url) and url.lower().endswith((...))
IsLocalByName(u, exists) ==
  \E suf \in VideoSuffixes : EndsWith(Lower(u), suf)

IsLocalFile(u, exists) ==
  exists /\ \E suf \in VideoSuffixes : EndsWith(Lower(u), suf)

\* lines 109-117: audio_<id>.m4a if it exists, else the first fallback that
\* exists, else NoFile (the for-else raises)
LocateLastFallback(fs, id) ==
  IF AudioPath(id, "m4a") \in fs THEN AudioPath(id, "m4a")
  ELSE LET hits == {i \in 1..Len(FallbackExts) : AudioPath(id, FallbackExts[i]) \in fs}
       IN IF hits = {} THEN NoFile
          ELSE AudioPath(id, FallbackExts[CHOOSE i \in hits : \A j \in hits : j <= i])

LocateOutput(fs, id) ==
  IF AudioPath(id, "m4a") \in fs THEN AudioPath(id, "m4a")
  ELSE LET hits == {i \in 1..Len(FallbackExts) : AudioPath(id, FallbackExts[i]) \in fs}
       IN IF hits = {} THEN NoFile
          ELSE AudioPath(id, FallbackExts[CHOOSE i \in hits : \A j \in hits : i <= j])

Abs(x) == IF x < 0 THEN -x ELSE x

\* line 128: expected and actual and abs(actual - expected) / expected > 0.1
ToleranceInclusive(expected, actual) ==
  /\ expected # 0
  /\ actual # 0
  /\ 10 * Abs(actual - expected) >= expected

ToleranceExceeded(expected, actual) ==
  /\ expected # 0
  /\ actual # 0
  /\ 10 * Abs(actual - expected) > expected

\* --------------------------------------------------------------- actions
\* An exception that reaches the outer handler, lines 146-148
Fail(c, cause) ==
  /\ pc' = [pc EXCEPT ![c] = "failed"]
  /\ outcome' = [outcome EXCEPT ![c] = Raised(cause)]

Goto(c, next) ==
  /\ pc' = [pc EXCEPT ![c] = next]
  /\ UNCHANGED outcome

Proceed(c, next, cause) == IF next = "failed" THEN Fail(c, cause) ELSE Goto(c, next)

\* lines 71-73: extract_info raising, or info.get on a None info, leaves the
\* with block through the outer handler; else line 75 is next
ExtractInfoSwallowed(gotDict) == "download"

AfterExtractInfo(gotDict) == IF gotDict THEN "download" ELSE "failed"

\* line 75: ydl.download raising reaches the outer handler; else the
\* locator of line 108 is next
AfterDownload(ok) == IF ok THEN "locate" ELSE "failed"

\* line 95: subprocess.check_call raises on a nonzero exit, which reaches
\* the outer handler; else the source probe of line 98 is next
LocalExitIgnored(exitOk) == "probe_source"

AfterLocalFfmpeg(exitOk) == IF exitOk THEN "probe_source" ELSE "failed"

\* lines 132-141: a failed repair re-encode is caught by the inner
\* except Exception, which logs; the return of line 144 is next
RepairFailurePropagated == "failed"

AfterRepairFailure == "done"

\* lines 42-64 (and the YoutubeDL constructor of line 70): a call starts,
\* creates the output directory, draws its identifier, classifies the input
\* and derives its own options.
Start(c, env) ==
  /\ pc[c] = "idle"
  /\ Cardinality({o \in Calls : pc[o] # "idle"}) < env.calls
  /\ \E u \in env.urls, exists \in env.exists, mkdirOk \in BOOLEAN, id \in Ids :
       /\ url' = [url EXCEPT ![c] = u]
       /\ url_exists' = [url_exists EXCEPT ![c] = exists]
       /\ log' = [log EXCEPT ![c] = <<Op("mkdir", mkdirOk)>>]
       /\ IF ~mkdirOk
            THEN /\ Fail(c, "mkdir")
                 /\ UNCHANGED <<self_ydl_opts, unique_id, is_local_file,
                                video_title, ydl_opts>>
            ELSE LET local == IsLocalFile(u, exists)
                     opts == OptsOverride(self_ydl_opts, OutputTemplate(id))
                 IN /\ unique_id' = [unique_id EXCEPT ![c] = id]
                    /\ is_local_file' = [is_local_file EXCEPT ![c] = local]
                    /\ video_title' = [video_title EXCEPT ![c] =
                                         IF local THEN Basename(u) ELSE NoTitle]
                    /\ self_ydl_opts' = opts.shared
                    /\ ydl_opts' = [ydl_opts EXCEPT ![c] = opts.local]
                    /\ Goto(c, IF local THEN "local_ffmpeg" ELSE "extract_info")
  /\ UNCHANGED <<files, expected_duration, actual_duration, audio_file, probe_cmd>>

\* lines 71-74: info = await to_thread(ydl.extract_info, url, False)
ExtractInfo(c, env) ==
  /\ pc[c] = "extract_info"
  /\ \E raises \in BOOLEAN, isNone \in BOOLEAN,
        hasTitle \in env.infoFlags, hasDuration \in env.infoFlags,
        d \in env.durations :
       LET gotDict == ~raises /\ ~isNone   \* info.get on None: AttributeError
           info == InfoDict(hasTitle, hasDuration, d)
           dur == Get(info, "duration", 0)
       IN /\ log' = [log EXCEPT ![c] = Append(@, Op("extract_info", gotDict))]
          /\ IF gotDict
               THEN /\ video_title' = [video_title EXCEPT ![c] =
                                         Get(info, "title", Unknown)]
                    /\ expected_duration' = [expected_duration EXCEPT ![c] =
                                               IF dur # 0 THEN dur ELSE 0]
               ELSE UNCHANGED <<video_title, expected_duration>>
          /\ Proceed(c, AfterExtractInfo(gotDict), "acquisition")
  /\ UNCHANGED <<self_ydl_opts, files, url, url_exists, unique_id, is_local_file,
                 ydl_opts, actual_duration, audio_file, probe_cmd>>

\* line 75: await to_thread(ydl.download, [url]); the files it leaves are
\* named by the output template of the options the YoutubeDL was built with
Download(c, env) ==
  /\ pc[c] = "download"
  /\ \E ok \in BOOLEAN, written \in env.written :
       /\ log' = [log EXCEPT ![c] =
                    Append(@, [op |-> "download", ok |-> ok, opts |-> ydl_opts[c]])]
       /\ files' = IF ok
                     THEN files \cup {AudioPath(ydl_opts[c].outtmpl.id, e) : e \in written}
                     ELSE files
       /\ Proceed(c, AfterDownload(ok), "acquisition")
  /\ UNCHANGED <<self_ydl_opts, url, url_exists, unique_id, is_local_file,
                 video_title, ydl_opts, expected_duration, actual_duration,
                 audio_file, probe_cmd>>

\* lines 81-96: the local extraction, ffmpeg -y -i <url> ... audio_<id>.m4a
LocalFfmpeg(c) ==
  /\ pc[c] = "local_ffmpeg"
  /\ \E exitOk \in BOOLEAN :
       /\ log' = [log EXCEPT ![c] = Append(@, Op("ffmpeg_extract", exitOk))]
       /\ audio_file' = [audio_file EXCEPT ![c] = AudioPath(unique_id[c], "m4a")]
       /\ files' = IF exitOk THEN files \cup {AudioPath(unique_id[c], "m4a")}
                   ELSE files
       /\ Proceed(c, AfterLocalFfmpeg(exitOk), "local_extraction")
  /\ UNCHANGED <<self_ydl_opts, url, url_exists, unique_id, is_local_file,
                 video_title, ydl_opts, expected_duration, actual_duration,
                 probe_cmd>>

\* lines 98-104: ffprobe of the source video gives the expected duration
ProbeSource(c, env) ==
  /\ pc[c] = "probe_source"
  /\ \E r \in env.probes :
       /\ log' = [log EXCEPT ![c] = Append(@, Op("ffprobe_source", r.ok))]
       /\ expected_duration' = [expected_duration EXCEPT ![c] = ProbedDuration(r)]
  /\ Goto(c, "probe_output")
  /\ UNCHANGED <<self_ydl_opts, files, url, url_exists, unique_id, is_local_file,
                 video_title, ydl_opts, actual_duration, audio_file, probe_cmd>>

\* lines 108-117: the output locator of the remote branch
Locate(c) ==
  /\ pc[c] = "locate"
  /\ LET found == LocateOutput(files, unique_id[c])
     IN /\ log' = [log EXCEPT ![c] =
                  Append(@, [op |-> "locate", ok |-> found # NoFile, file |-> found])]
        /\ audio_file' = [audio_file EXCEPT ![c] = found]
        /\ Proceed(c, IF found = NoFile THEN "failed" ELSE "probe_output",
                   "output_not_found")
  /\ UNCHANGED <<self_ydl_opts, files, url, url_exists, unique_id, is_local_file,
                 video_title, ydl_opts, expected_duration, actual_duration,
                 probe_cmd>>

\* lines 120-126: ffprobe of the audio file gives the actual duration
ProbeOutput(c, env) ==
  /\ pc[c] = "probe_output"
  /\ \E r \in env.probes :
       /\ log' = [log EXCEPT ![c] = Append(@, Op("ffprobe_output", r.ok))]
       /\ actual_duration' = [actual_duration EXCEPT ![c] = ProbedDuration(r)]
  /\ probe_cmd' = [probe_cmd EXCEPT ![c] = audio_file[c]]
  /\ Goto(c, "check")
  /\ UNCHANGED <<self_ydl_opts, files, url, url_exists, unique_id, is_local_file,
                 video_title, ydl_opts, expected_duration, audio_file>>

\* line 128 and, within tolerance, lines 143-144
CheckDuration(c) ==
  /\ pc[c] = "check"
  /\ IF ToleranceExceeded(expected_duration[c], actual_duration[c])
       THEN Goto(c, "repair")
       ELSE /\ pc' = [pc EXCEPT ![c] = "done"]
            /\ outcome' = [outcome EXCEPT ![c] = Returned(audio_file[c], video_title[c])]
  /\ UNCHANGED <<self_ydl_opts, files, url, url_exists, unique_id, is_local_file,
                 video_title, ydl_opts, expected_duration, actual_duration,
                 audio_file, probe_cmd, log>>

\* line 136: audio_file = fixed_path, once the re-encode has exited with 0
KeepOriginal(original, fixed) == original

AdoptRepaired(original, fixed) == fixed

\* line 137: probe_cmd.replace(quote(audio_file.rsplit('.',1)[0] + '.m4a'),
\* quote(audio_file)) with audio_file already the fixed path: the pattern is
\* the replacement, so the command still names the file it named before
Reprobed(cmdFile, adopted) ==
  LET pattern == [adopted EXCEPT !.ext = "m4a"]
  IN IF cmdFile = pattern THEN adopted ELSE cmdFile

\* lines 129-136 and 140-141: the repair re-encode,
\* ffmpeg -y -i <audio_file> ... audio_<id>_fixed.m4a
Repair(c) ==
  /\ pc[c] = "repair"
  /\ \E exitOk \in BOOLEAN :
       LET fixed_path == FixedPath(unique_id[c])
       IN /\ log' = [log EXCEPT ![c] = Append(@, Op("ffmpeg_repair", exitOk))]
          /\ IF exitOk
               THEN /\ files' = files \cup {fixed_path}
                    /\ audio_file' = [audio_file EXCEPT ![c] =
                                        AdoptRepaired(@, fixed_path)]
                    /\ Goto(c, "reprobe")
               ELSE /\ UNCHANGED <<files, audio_file>>
                    /\ IF AfterRepairFailure = "done"
                         THEN /\ pc' = [pc EXCEPT ![c] = "done"]
                              /\ outcome' = [outcome EXCEPT ![c] =
                                   Returned(audio_file[c], video_title[c])]
                         ELSE Fail(c, "repair")
  /\ UNCHANGED <<self_ydl_opts, url, url_exists, unique_id, is_local_file,
                 video_title, ydl_opts, expected_duration, actual_duration,
                 probe_cmd>>

\* lines 137-144: the re-probe after a repair, whose result is only logged,
\* and the return
Reprobe(c, env) ==
  /\ pc[c] = "reprobe"
  /\ \E r \in env.probes :
       log' = [log EXCEPT ![c] =
                 Append(@, [op |-> "ffprobe_repaired", ok |-> r.ok,
                            file |-> Reprobed(probe_cmd[c], audio_file[c])])]
  /\ pc' = [pc EXCEPT ![c] = "done"]
  /\ outcome' = [outcome EXCEPT ![c] = Returned(audio_file[c], video_title[c])]
  /\ UNCHANGED <<self_ydl_opts, files, url, url_exists, unique_id, is_local_file,
                 video_title, ydl_opts, expected_duration, actual_duration,
                 audio_file, probe_cmd>>

\* the steps of a call that is under way
Run(c, env) ==
  \/ ExtractInfo(c, env)
  \/ Download(c, env)
  \/ LocalFfmpeg(c)
  \/ ProbeSource(c, env)
  \/ Locate(c)
  \/ ProbeOutput(c, env)
  \/ CheckDuration(c)
  \/ Repair(c)
  \/ Reprobe(c, env)

\* One call, made by any of the callers, against the whole environment.
Next == \E c \in Calls : Start(c, Environment) \/ Run(c, Environment)

Spec == Init /\ [][Next]_vars

\* Every external step settles and a coroutine that can run is run.
FairSpec == Spec /\ \A c \in Calls : WF_vars(Run(c, Environment))

\* All the calls, interleaved at every step, against the narrowed environment.
ConcNext == \E c \in Calls : Start(c, NarrowEnvironment) \/ Run(c, NarrowEnvironment)

ConcSpec == Init /\ [][ConcNext]_vars

\* ------------------------------------------------------------------ claims
\* the entries of call c's log for one operation
Entries(c, name) == {i \in DOMAIN log[c] : log[c][i].op = name}

Ran(c, name) == Entries(c, name) # {}

Succeeded(c, name) == \E i \in Entries(c, name) : log[c][i].ok

Failed(c, name) == \E i \in Entries(c, name) : ~log[c][i].ok

Finished(c) == pc[c] \in {"done", "failed"}

\* the audio file the call located (remote) or extracted (local): the one it
\* probed
Located(c) == probe_cmd[c]

\* |A - D| / D > 0.1 for nonzero D and A, as the claims state it
BeyondTolerance(c) ==
  LET D == expected_duration[c]
      A == actual_duration[c]
      diff == IF A >= D THEN A - D ELSE D - A
  IN D # 0 /\ A # 0 /\ 10 * diff > D

\* C1: when D and A are both nonzero and |A-D|/D > 0.1, exactly one repair
\* re-encode into audio_<id>_fixed.m4a is attempted; if it succeeds the call
\* returns the _fixed.m4a path whatever the re-probe gives, and if it fails
\* the call still returns, with the original path.
C1_RepairBeyondTolerance ==
  \A c \in Calls :
    (Finished(c) /\ Ran(c, "ffprobe_output") /\ BeyondTolerance(c)) =>
      /\ Cardinality(Entries(c, "ffmpeg_repair")) = 1
      /\ outcome[c].kind = "returned"
      /\ Succeeded(c, "ffmpeg_repair") =>
           /\ outcome[c].audio_file = [id |-> unique_id[c], fixed |-> TRUE, ext |-> "m4a"]
           /\ outcome[c].audio_file \in files
      /\ Failed(c, "ffmpeg_repair") =>
           /\ outcome[c].audio_file = Located(c)
           /\ ~outcome[c].audio_file.fixed

\* a call 20% off whose repair succeeded and whose re-probe failed
C1_Witness ==
  \E c \in Calls :
    /\ pc[c] = "done"
    /\ expected_duration[c] = 10 /\ actual_duration[c] = 12
    /\ Succeeded(c, "ffmpeg_repair")
    /\ Failed(c, "ffprobe_repaired")
    /\ outcome[c].audio_file.fixed

\* C2: no repair re-encode is run and the returned path is the located or
\* extracted file, without _fixed, whenever |A-D|/D <= 0.1 or D or A is zero
\* (missing metadata duration, failed source probe, failed output probe).
C2_NoRepairWithinTolerance ==
  \A c \in Calls :
    (Ran(c, "ffprobe_output") /\ pc[c] # "check" /\ ~BeyondTolerance(c)) =>
      /\ ~Ran(c, "ffmpeg_repair")
      /\ pc[c] = "done"
      /\ outcome[c].kind = "returned"
      /\ outcome[c].audio_file = Located(c)
      /\ ~outcome[c].audio_file.fixed

\* a call whose audio is off by exactly 10%
C2_Witness ==
  \E c \in Calls :
    /\ pc[c] = "done"
    /\ expected_duration[c] = 10 /\ actual_duration[c] = 11
    /\ ~Ran(c, "ffmpeg_repair")
    /\ ~outcome[c].audio_file.fixed

\* C3: every successful call returns a path whose extension is .m4a,
\* including when the download left its output under another extension.
C3_ReturnsM4a ==
  \A c \in Calls :
    outcome[c].kind = "returned" => outcome[c].audio_file.ext = "m4a"

\* C4: after a download that reported success the locator selects
\* audio_<id>.m4a if it exists, otherwise the first existing file among
\* .webm, .mp4, .mp3, .wav in that order; if none of the five exists the call
\* fails with the output-not-found error and runs no probe and no repair.
C4_LocatorOrder ==
  \A c \in Calls :
    Ran(c, "locate") =>
      LET Have(e) == [id |-> unique_id[c], fixed |-> FALSE, ext |-> e] \in files
          found == log[c][CHOOSE i \in Entries(c, "locate") : TRUE].file
      IN /\ Succeeded(c, "download")
         /\ IF Have("m4a") THEN found.ext = "m4a"
            ELSE IF Have("webm") THEN found.ext = "webm"
            ELSE IF Have("mp4") THEN found.ext = "mp4"
            ELSE IF Have("mp3") THEN found.ext = "mp3"
            ELSE IF Have("wav") THEN found.ext = "wav"
            ELSE /\ pc[c] = "failed"
                 /\ outcome[c] = [kind |-> "raised", wrapped |-> TRUE,
                                  cause |-> "output_not_found"]
                 /\ ~Ran(c, "ffprobe_output")
                 /\ ~Ran(c, "ffmpeg_repair")
         /\ (\E e \in DownloadExts : Have(e)) =>
              /\ found.id = unique_id[c]
              /\ ~found.fixed
              /\ pc[c] # "failed"

\* a download that left .mp4 and .wav but neither .m4a nor .webm: the call
\* returns the .mp4
C4_Witness ==
  \E c \in Calls :
    /\ pc[c] = "done"
    /\ {f.ext : f \in {g \in files : g.id = unique_id[c]}} = {"mp4", "wav"}
    /\ outcome[c].audio_file.ext = "mp4"

\* the inputs whose extension is one of mp4, mov, avi, flv (in either case),
\* with their base file names
VideoFileNames ==
  [u \in { <<"/", "a", ".", "m", "p", "4">>, <<"/", "B", ".", "M", "O", "V">>,
           <<"v", "/", "c", ".", "a", "v", "i">>, <<"d", ".", "f", "l", "v">> } |->
     CASE u = <<"/", "a", ".", "m", "p", "4">> -> <<"a", ".", "m", "p", "4">>
       [] u = <<"/", "B", ".", "M", "O", "V">> -> <<"B", ".", "M", "O", "V">>
       [] u = <<"v", "/", "c", ".", "a", "v", "i">> -> <<"c", ".", "a", "v", "i">>
       [] u = <<"d", ".", "f", "l", "v">> -> <<"d", ".", "f", "l", "v">>]

\* C5: the call takes the local branch (ffmpeg extraction, title = base file
\* name of the input, no metadata extraction and no download) if and only if
\* the input exists and its extension is one of mp4, mov, avi, flv; every
\* other input takes the remote branch and never runs the local extraction.
C5_LocalIffExistingVideoFile ==
  \A c \in Calls :
    Succeeded(c, "mkdir") =>
      IF url_exists[c] /\ url[c] \in DOMAIN VideoFileNames
        THEN /\ pc[c] # "extract_info"
             /\ ~Ran(c, "extract_info") /\ ~Ran(c, "download")
             /\ pc[c] = "local_ffmpeg" \/ Ran(c, "ffmpeg_extract")
             /\ video_title[c] = VideoFileNames[url[c]]
             /\ outcome[c].kind = "returned" =>
                  outcome[c].title = VideoFileNames[url[c]]
        ELSE /\ pc[c] # "local_ffmpeg"
             /\ ~Ran(c, "ffmpeg_extract") /\ ~Ran(c, "ffprobe_source")
             /\ pc[c] = "extract_info" \/ Ran(c, "extract_info")

\* a call on the existing v/c.avi that returned with the title c.avi
C5_Witness ==
  \E c \in Calls :
    /\ url[c] = <<"v", "/", "c", ".", "a", "v", "i">> /\ url_exists[c]
    /\ outcome[c].kind = "returned"
    /\ outcome[c].title = <<"c", ".", "a", "v", "i">>
    /\ Succeeded(c, "ffmpeg_extract")

\* C6: on the remote branch metadata extraction is invoked exactly once and
\* settles before the download is invoked; the download is invoked at most
\* once, exactly once when metadata extraction succeeded; if either raises,
\* the call fails with the wrapped acquisition failure and no later step runs.
C6_MetadataThenDownloadOnce ==
  \A c \in Calls :
    Ran(c, "extract_info") =>
      /\ Cardinality(Entries(c, "extract_info")) = 1
      /\ Cardinality(Entries(c, "download")) <= 1
      /\ \A d \in Entries(c, "download") :
           \E m \in Entries(c, "extract_info") : m < d /\ log[c][m].ok
      /\ (Succeeded(c, "extract_info") /\ pc[c] # "download") =>
           Cardinality(Entries(c, "download")) = 1
      /\ (Failed(c, "extract_info") \/ Failed(c, "download")) =>
           /\ pc[c] = "failed"
           /\ outcome[c] = [kind |-> "raised", wrapped |-> TRUE, cause |-> "acquisition"]
           /\ ~Ran(c, "locate") /\ ~Ran(c, "ffprobe_output") /\ ~Ran(c, "ffmpeg_repair")
      /\ Failed(c, "extract_info") => ~Ran(c, "download")

\* a call whose metadata extraction succeeded and whose download raised
C6_Witness ==
  \E c \in Calls :
    /\ Succeeded(c, "extract_info")
    /\ Failed(c, "download")
    /\ pc[c] = "failed"

\* C7: once the audio file has been located (remote) or extracted (local) the
\* call always reaches Done and returns a (path, title) pair, whatever fails
\* in the probes, the tolerance check, the repair or the re-probe.
C7_DoneOnceLocated ==
  \A c \in Calls :
    (Succeeded(c, "locate") \/ Succeeded(c, "ffmpeg_extract"))
      ~> (pc[c] = "done" /\ outcome[c].kind = "returned")

\* a call that returned although its repair re-encode failed
C7_Witness ==
  \E c \in Calls :
    /\ Succeeded(c, "locate")
    /\ Failed(c, "ffmpeg_repair")
    /\ pc[c] = "done"
    /\ outcome[c].kind = "returned"

\* the file names a started call can write: audio_<id>.<ext>, audio_<id>_fixed.m4a
NamesOf(c) ==
  {[id |-> unique_id[c], fixed |-> FALSE, ext |-> e] : e \in DownloadExts}
    \cup {[id |-> unique_id[c], fixed |-> TRUE, ext |-> "m4a"]}

\* C8: the output file names of different calls into the same directory
\* never collide, so no call returns a file another call produced.
C8_NamesNeverCollide ==
  \A c, d \in Calls :
    (c # d /\ outcome[c].kind = "returned" /\ outcome[d].kind = "returned") =>
      /\ NamesOf(c) \cap NamesOf(d) = {}
      /\ outcome[c].audio_file # outcome[d].audio_file

\* C9: after any sequence or interleaving of calls the shared default
\* options are unchanged, and every download ran with the defaults except
\* for the output template, which is that call's own, with noplaylist on.
C9_DefaultsUntouched ==
  /\ self_ydl_opts = [format |-> "bestaudio/best",
                      outtmpl |-> [stem |-> "%(title)s", id |-> 0],
                      preferredcodec |-> "m4a", noplaylist |-> TRUE]
  /\ \A c \in Calls : \A i \in Entries(c, "download") :
       /\ log[c][i].opts.noplaylist
       /\ log[c][i].opts.outtmpl = [stem |-> "audio_", id |-> unique_id[c]]
       /\ \A k \in DOMAIN self_ydl_opts \ {"outtmpl"} :
            log[c][i].opts[k] = self_ydl_opts[k]

\* two calls with different identifiers have both run their download
C9_Witness ==
  \E c, d \in Calls :
    /\ unique_id[c] # unique_id[d]
    /\ Succeeded(c, "download") /\ Succeeded(d, "download")
    /\ pc[c] = "done" /\ pc[d] = "locate"

\* C10: on the local branch a nonzero exit of the ffmpeg extraction makes the
\* call fail with a wrapped failure: no source probe, no output probe, no
\* repair, and no (path, title) result.
C10_LocalExtractionFailureAborts ==
  \A c \in Calls :
    Failed(c, "ffmpeg_extract") =>
      /\ pc[c] = "failed"
      /\ outcome[c] = [kind |-> "raised", wrapped |-> TRUE, cause |-> "local_extraction"]
      /\ ~Ran(c, "ffprobe_source") /\ ~Ran(c, "ffprobe_output")
      /\ ~Ran(c, "ffmpeg_repair")

\* a call on an existing video file whose extraction exited nonzero
C10_Witness ==
  \E c \in Calls :
    /\ is_local_file[c]
    /\ Failed(c, "ffmpeg_extract")
    /\ pc[c] = "failed"

====
